---- MODULE Spec2Model ----
(***************************************************************************)
(* A model of src/aml/src/lib.rs: the tensor view F32Tensor, and the four  *)
(* kernels sgemm, sgemm_tiled, sgemm_tiled_par and sgemm_tiled_simd.       *)
(*                                                                         *)
(* A Vec or a slice is a function on 0..len-1, so that an index of the     *)
(* model is the index of the code.  An f32 is modelled by an integer: the  *)
(* inputs are small integers, on which every product and sum of the        *)
(* kernels is exact in f32 as well.                                        *)
(***************************************************************************)
EXTENDS Integers, FiniteSets

VARIABLES
    a_arg,      \* the (data, shape) the caller hands to F32Tensor::new for A
    b_arg,      \* the same for B
    a,          \* the tensor view A, NoTensor before its construction
    b,          \* the tensor view B
    c,          \* the caller's output buffer, &mut Vec<f32>
    c_in,       \* the contents of the output buffer before the call
    a_t,        \* the transpose flags of the call
    b_t,
    avx,        \* what is_x86_feature_detected!("avx") answered
    kernel,     \* the kernel that was called, "none" before the call
    status,     \* "ready", "running" (tasks forked), "done", "panicked"
    err,        \* the assertion that failed, "none" otherwise
    oob,        \* an index outside its buffer has been used
    tasks,      \* sgemm_tiled_par: column block |-> the next row of its task
    written     \* sgemm_tiled_par: column block |-> the indices of c its task wrote

vars == <<a_arg, b_arg, a, b, c, c_in, a_t, b_t, avx, kernel, status, err, oob,
          tasks, written>>

\* ------------------------------------------------------------------ bounds

\* m, n and p are drawn in blocks of 16: the blocks of rows(A), plus those of
\* the shared dimension (one at least), plus twice those of cols(B) (each is a
\* task of sgemm_tiled_par), are at most MaxBlocks
MaxBlocks == 6
\* the dimensions F32Tensor::new is tried on are 0..MaxDim
MaxDim == 32

\* --------------------------------------------------------------- constants

block_size == 16
\* the immediate of both _mm256_dp_ps
dp_imm8 == 0
\* the lanes of a __m256
Lanes == 8

NoTensor == [shape |-> <<>>, data |-> <<>>, built |-> FALSE]

VecLen(v) == Cardinality(DOMAIN v)

Vec2(x, y) == [i \in 0..1 |-> IF i = 0 THEN x ELSE y]

\* ------------------------------------------------------------- F32Tensor

RECURSIVE ShapeFold(_, _, _)
\* shape.iter().fold(1, |acc, next| acc * next), from element i on
ShapeFold(shape, i, acc) ==
    IF i >= VecLen(shape) THEN acc
    ELSE ShapeFold(shape, i + 1, acc * shape[i])

\* the four assertions of F32Tensor::new, in their order
NewAsserts(data, shape) ==
    /\ VecLen(shape) = 2
    /\ shape[0] % 16 = 0
    /\ shape[1] % 16 = 0
    /\ VecLen(data) = ShapeFold(shape, 0, 1)

F32Tensor_new(data, shape) == [shape |-> shape, data |-> data, built |-> TRUE]

\* ---------------------------------------------------------------- kernels

m == a.shape[0]
n == a.shape[1]
p == b.shape[1]

\* assert!(!a_t && !b_t, ...)
TransposeOk(at, bt) == ~at /\ ~bt
\* assert!(a.shape[1] == b.shape[0], ...)
ShapesCompatible == a.shape[1] = b.shape[0]
\* assert!(a.shape[0] * b.shape[1] == c.len(), ...)
SizeOk == a.shape[0] * b.shape[1] = VecLen(c)

\* Preconditions without its last assertion
Preconditions_no_size(at, bt) ==
    IF ~TransposeOk(at, bt) THEN "Unsupported"
    ELSE IF ~ShapesCompatible THEN "Incompatibility"
    ELSE "none"

\* the three assertions every kernel starts with, in their order: the name of
\* the first that fails, "none" when all pass
Preconditions(at, bt) ==
    IF ~TransposeOk(at, bt) THEN "Unsupported"
    ELSE IF ~ShapesCompatible THEN "Incompatibility"
    ELSE IF ~SizeOk THEN "Size"
    ELSE "none"

\* The memory a kernel works on: the output buffer, the indices of it that
\* were written, and whether an index outside a buffer was used.
Mem(cc, ww, o) == [c |-> cc, w |-> ww, oob |-> o]

\* the one element of a singleton: Only({f(x) : x \in {e}}) is f(e), with e
\* evaluated once, also where ENABLED is evaluated
Only(S) == CHOOSE x \in S : TRUE
NoWrites(cc) == [i \in DOMAIN cc |-> FALSE]

\* (0..x).step_by(block_size)
Blocks(x) == {i \in 0..(x - 1) : i % block_size = 0}

\* ---- sgemm
\* (every loop below stops at the first index outside a buffer: the code panics
\* on one, or has left defined behaviour)

\* sgemm_stmt with = for +=
sgemm_stmt_assign(mem, i, j, k) ==
    LET ai == i * n + k
        bi == k * p + j
        ci == i * p + j
    IN  IF ai \notin DOMAIN a.data \/ bi \notin DOMAIN b.data \/ ci \notin DOMAIN mem.c
        THEN [mem EXCEPT !.oob = TRUE]
        ELSE [mem EXCEPT !.c[ci] = a.data[ai] * b.data[bi], !.w[ci] = TRUE]

\* c[i * p + j] += a.data[i * n + k] * b.data[k * p + j]
sgemm_stmt(mem, i, j, k) ==
    LET ai == i * n + k
        bi == k * p + j
        ci == i * p + j
    IN  IF ai \notin DOMAIN a.data \/ bi \notin DOMAIN b.data \/ ci \notin DOMAIN mem.c
        THEN [mem EXCEPT !.oob = TRUE]
        ELSE [mem EXCEPT !.c[ci] = @ + a.data[ai] * b.data[bi], !.w[ci] = TRUE]

RECURSIVE sgemm_k(_, _, _, _)
sgemm_k(mem, i, j, k) ==
    IF k >= n \/ mem.oob THEN mem
    ELSE sgemm_k(sgemm_stmt(mem, i, j, k), i, j, k + 1)

RECURSIVE sgemm_j(_, _, _)
sgemm_j(mem, i, j) ==
    IF j >= p \/ mem.oob THEN mem
    ELSE sgemm_j(sgemm_k(mem, i, j, 0), i, j + 1)

RECURSIVE sgemm_i(_, _)
sgemm_i(mem, i) ==
    IF i >= m \/ mem.oob THEN mem
    ELSE sgemm_i(sgemm_j(mem, i, 0), i + 1)

\* ---- the scalar tiled loops (sgemm_tiled; the closure of sgemm_tiled_par,
\* ---- lines 154-168, and the fallback of sgemm_tiled_simd, lines 222-233,
\* ---- are the same text)

\* BIdx one element further
BIdx_off_by_one(tile, tile_row, col_block, el) == tile * p + tile_row * p + col_block + el + 1
\* CIdx with the stride of A for that of C
CIdx_stride_n(row, col_block, el) == row * n + col_block + el
\* CIdx without the column block of the task
CIdx_no_col_block(row, col_block, el) == row * p + el

AIdx(row, tile, tile_row) == row * n + tile + tile_row
BIdx(tile, tile_row, col_block, el) == tile * p + tile_row * p + col_block + el
CIdx(row, col_block, el) == row * p + col_block + el

\* c[row * p + col_block + el] =
\*     a.data[row * n + tile + tile_row] * b.data[tile * p + tile_row * p + col_block + el]
tiled_stmt(mem, col_block, row, tile, tile_row, el) ==
    LET ai == AIdx(row, tile, tile_row)
        bi == BIdx(tile, tile_row, col_block, el)
        ci == CIdx(row, col_block, el)
    IN  IF ai \notin DOMAIN a.data \/ bi \notin DOMAIN b.data \/ ci \notin DOMAIN mem.c
        THEN [mem EXCEPT !.oob = TRUE]
        ELSE [mem EXCEPT !.c[ci] = a.data[ai] * b.data[bi], !.w[ci] = TRUE]

RECURSIVE tiled_el(_, _, _, _, _, _)
tiled_el(mem, col_block, row, tile, tile_row, el) ==
    IF el >= block_size \/ mem.oob THEN mem
    ELSE Only({tiled_el(next, col_block, row, tile, tile_row, el + 1) :
                 next \in {tiled_stmt(mem, col_block, row, tile, tile_row, el)}})

RECURSIVE tiled_tile_row(_, _, _, _, _)
tiled_tile_row(mem, col_block, row, tile, tile_row) ==
    IF tile_row >= block_size \/ mem.oob THEN mem
    ELSE Only({tiled_tile_row(next, col_block, row, tile, tile_row + 1) :
                 next \in {tiled_el(mem, col_block, row, tile, tile_row, 0)}})

RECURSIVE tiled_tile(_, _, _, _)
tiled_tile(mem, col_block, row, tile) ==
    IF tile >= n \/ mem.oob THEN mem
    ELSE Only({tiled_tile(next, col_block, row, tile + block_size) :
                 next \in {tiled_tile_row(mem, col_block, row, tile, 0)}})

RECURSIVE tiled_row(_, _, _)
tiled_row(mem, col_block, row) ==
    IF row >= m \/ mem.oob THEN mem
    ELSE tiled_row(tiled_tile(mem, col_block, row, 0), col_block, row + 1)

RECURSIVE tiled_col_block(_, _)
tiled_col_block(mem, col_block) ==
    IF col_block >= p \/ mem.oob THEN mem
    ELSE tiled_col_block(tiled_row(mem, col_block, 0), col_block + block_size)

\* ---- the vector path of sgemm_tiled_simd

Bit(x, k) == (x \div (2 ^ k)) % 2 = 1

\* _mm256_loadu_ps(ptr.add(off)): the 8 floats from off on
mm256_loadu_ps(data, off) == [l \in 0..(Lanes - 1) |-> data[off + l]]

\* _mm256_broadcast_ss(&x)
mm256_broadcast_ss(x) == [l \in 0..(Lanes - 1) |-> x]

\* _mm256_dp_ps(x, y, imm8): in each 128-bit half, the products that bits 4..7
\* of imm8 select are summed, and the sum goes to the lanes that bits 0..3
\* select; every other lane is 0
mm256_dp_ps(x, y, imm8) ==
    [l \in 0..(Lanes - 1) |->
        LET half == (l \div 4) * 4
            prod(i) == IF Bit(imm8, 4 + i) THEN x[half + i] * y[half + i] ELSE 0
            sum == prod(0) + prod(1) + prod(2) + prod(3)
        IN  IF Bit(imm8, l % 4) THEN sum ELSE 0]

RECURSIVE store_lanes(_, _, _, _)
\* the lanes l.. of v go to off + l..
store_lanes(mem, off, v, l) ==
    IF l >= Lanes THEN mem
    ELSE store_lanes([mem EXCEPT !.c[off + l] = v[l], !.w[off + l] = TRUE],
        off, v, l + 1)

\* _mm256_storeu_ps(c.as_mut_ptr().add(off), v)
mm256_storeu_ps(mem, off, v) == store_lanes(mem, off, v, 0)

\* whether the 8 elements from off on lie in a buffer of domain dom
InBounds8(dom, off) == off \in dom /\ (off + Lanes - 1) \in dom

\* the body of the tile_col loop, lines 200-215
simd_stmt(mem, col_block, row, tile, tile_col) ==
    LET b_off_1 == tile * p + tile_col * p + col_block
        b_off_2 == tile * p + tile_col * p + col_block + 8
        a_idx == row * n + tile + tile_col
        c_off_1 == row * p + col_block
        c_off_2 == row * p + col_block + 8
    IN  IF \/ ~InBounds8(DOMAIN b.data, b_off_1)
           \/ ~InBounds8(DOMAIN b.data, b_off_2)
           \/ a_idx \notin DOMAIN a.data
           \/ ~InBounds8(DOMAIN mem.c, c_off_1)
           \/ ~InBounds8(DOMAIN mem.c, c_off_2)
        THEN [mem EXCEPT !.oob = TRUE]
        ELSE LET b_vector_1 == mm256_loadu_ps(b.data, b_off_1)
                 b_vector_2 == mm256_loadu_ps(b.data, b_off_2)
                 a_values == mm256_broadcast_ss(a.data[a_idx])
                 res_1 == mm256_dp_ps(a_values, b_vector_1, dp_imm8)
                 res_2 == mm256_dp_ps(a_values, b_vector_2, dp_imm8)
             IN  mm256_storeu_ps(mm256_storeu_ps(mem, c_off_1, res_1), c_off_2, res_2)

RECURSIVE simd_tile_col(_, _, _, _, _)
simd_tile_col(mem, col_block, row, tile, tile_col) ==
    IF tile_col >= block_size \/ mem.oob THEN mem
    ELSE simd_tile_col(simd_stmt(mem, col_block, row, tile, tile_col), col_block, row, tile, tile_col + 1)

RECURSIVE simd_tile(_, _, _, _)
simd_tile(mem, col_block, row, tile) ==
    IF tile >= n \/ mem.oob THEN mem
    ELSE simd_tile(simd_tile_col(mem, col_block, row, tile, 0), col_block, row, tile + block_size)

RECURSIVE simd_row(_, _, _)
simd_row(mem, col_block, row) ==
    IF row >= m \/ mem.oob THEN mem
    ELSE simd_row(simd_tile(mem, col_block, row, 0), col_block, row + 1)

RECURSIVE simd_col_block(_, _)
simd_col_block(mem, col_block) ==
    IF col_block >= p \/ mem.oob THEN mem
    ELSE simd_col_block(simd_row(mem, col_block, 0), col_block + block_size)

\* ---- what each kernel leaves of the buffer cc, once its assertions passed

sgemm_run(cc) == sgemm_i(Mem(cc, NoWrites(cc), FALSE), 0)
sgemm_tiled_run(cc) == tiled_col_block(Mem(cc, NoWrites(cc), FALSE), 0)
sgemm_tiled_simd_run(cc, has_avx) ==
    IF has_avx THEN simd_col_block(Mem(cc, NoWrites(cc), FALSE), 0)
    ELSE tiled_col_block(Mem(cc, NoWrites(cc), FALSE), 0)
\* one iteration of `for row in 0..m` of the task of col_block, lines 155-167
par_task_row(mem, col_block, row) == tiled_tile(mem, col_block, row, 0)

\* ------------------------------------------------------------- the inputs

\* the data of A and of B: all ones for seed 0, a mix of small values otherwise
FillA(seed, i) == IF seed = 0 THEN 1 ELSE ((i * seed + (i \div 16)) % 4) - 1
FillB(seed, i) == IF seed = 0 THEN 1 ELSE ((i * (seed + 1) + (i \div 16)) % 5) - 2
\* the output buffer before the call: zero-initialized, or holding earlier results
FillC(fill, i) == IF fill = 0 THEN 0 ELSE (i % 3) + 1

Max(x, y) == IF x >= y THEN x ELSE y

\* the data patterns of A and B, and of the output buffer
Seeds == {0, 1}
Fills == {0, 1}

BufA(len, seed) == [i \in 0..(len - 1) |-> FillA(seed, i)]
BufB(len, seed) == [i \in 0..(len - 1) |-> FillB(seed, i)]
BufC(len, fill) == [i \in 0..(len - 1) |-> FillC(fill, i)]

\* the shapes F32Tensor::new is tried on: every rank from 0 to 3
RankShapes ==
    {<<>>}
    \cup {[i \in 0..0 |-> d] : d \in 0..MaxDim}
    \cup {Vec2(d, e) : d \in 0..MaxDim, e \in 0..MaxDim}
    \cup {[i \in 0..2 |-> v[i + 1]] : v \in {0, 16} \X {0, 16} \X {0, 16}}

\* Tensors with dimensions of whole blocks, as F32Tensor::new accepts them: B
\* with as many rows as A has columns, or with one block more; and an output
\* buffer of the right or of a wrong length.
InitKernels ==
    \E mb, nb, pb \in 0..MaxBlocks, seed \in Seeds, fill \in Fills :
        /\ mb + Max(1, nb) + 2 * pb <= MaxBlocks
        /\ a_arg = [data |-> BufA(mb * nb * block_size * block_size, seed),
                    shape |-> Vec2(mb * block_size, nb * block_size)]
        /\ \E n2b \in {nb, nb + 1} :
               b_arg = [data |-> BufB(n2b * pb * block_size * block_size, seed),
                        shape |-> Vec2(n2b * block_size, pb * block_size)]
        /\ \E len \in {mb * pb * block_size * block_size,
                       mb * pb * block_size * block_size + 1, block_size} :
               c = BufC(len, fill)

\* Any shape and any data length for A.
InitShapes ==
    \E shape \in RankShapes :
        \E len \in {ShapeFold(shape, 0, 1), ShapeFold(shape, 0, 1) + 1} :
            /\ a_arg = [data |-> BufA(len, 0), shape |-> shape]
            /\ b_arg = [data |-> BufB(block_size * block_size, 0), shape |-> Vec2(16, 16)]
            /\ c = BufC(block_size * block_size, 0)

\* nothing is built and no kernel was called
InitCaller ==
    /\ a = NoTensor
    /\ b = NoTensor
    /\ c_in = c
    /\ a_t = FALSE
    /\ b_t = FALSE
    /\ avx = FALSE
    /\ kernel = "none"
    /\ status = "ready"
    /\ err = "none"
    /\ oob = FALSE
    /\ tasks = <<>>
    /\ written = <<>>

Init == (InitKernels \/ InitShapes) /\ InitCaller

\* ------------------------------------------------------------- the actions

\* let a = F32Tensor::new(&data, shape): the tensor, or the panic of an assertion
NewA ==
    /\ status = "ready"
    /\ ~a.built
    /\ IF NewAsserts(a_arg.data, a_arg.shape)
       THEN /\ a' = F32Tensor_new(a_arg.data, a_arg.shape)
            /\ UNCHANGED <<status, err>>
       ELSE /\ status' = "panicked"
            /\ err' = "Shape"
            /\ UNCHANGED a
    /\ UNCHANGED <<a_arg, b_arg, b, c, c_in, a_t, b_t, avx, kernel, oob, tasks, written>>

NewB ==
    /\ status = "ready"
    /\ ~b.built
    /\ IF NewAsserts(b_arg.data, b_arg.shape)
       THEN /\ b' = F32Tensor_new(b_arg.data, b_arg.shape)
            /\ UNCHANGED <<status, err>>
       ELSE /\ status' = "panicked"
            /\ err' = "Shape"
            /\ UNCHANGED b
    /\ UNCHANGED <<a_arg, b_arg, a, c, c_in, a_t, b_t, avx, kernel, oob, tasks, written>>

\* a kernel is called once, on two tensors that were built
Callable == status = "ready" /\ a.built /\ b.built

\* a call of a sequential kernel: ran is what its loops leave of c, and is
\* evaluated only once the assertions have passed
Call(name, at, bt, has_avx, ran) ==
    /\ Callable
    /\ kernel' = name
    /\ a_t' = at
    /\ b_t' = bt
    /\ avx' = has_avx
    /\ c_in' = c
    /\ LET failed == Preconditions(at, bt)
       IN  IF failed # "none"
           THEN /\ status' = "panicked"
                /\ err' = failed
                /\ UNCHANGED <<c, oob>>
           ELSE \E mem \in {ran} :
                    /\ c' = mem.c
                    /\ oob' = mem.oob
                    /\ status' = "done"
                    /\ err' = "none"
    /\ UNCHANGED <<a_arg, b_arg, a, b, tasks, written>>

sgemm ==
    \E at, bt \in BOOLEAN : Call("sgemm", at, bt, FALSE, sgemm_run(c))

sgemm_tiled ==
    \E at, bt \in BOOLEAN : Call("sgemm_tiled", at, bt, FALSE, sgemm_tiled_run(c))

sgemm_tiled_simd ==
    \E at, bt, has_avx \in BOOLEAN :
        Call("sgemm_tiled_simd", at, bt, has_avx, sgemm_tiled_simd_run(c, has_avx))

\* sgemm_tiled_par up to the fork: the assertions, then one task per column block
sgemm_tiled_par ==
    \E at, bt \in BOOLEAN :
        /\ Callable
        /\ kernel' = "sgemm_tiled_par"
        /\ a_t' = at
        /\ b_t' = bt
        /\ c_in' = c
        /\ LET failed == Preconditions(at, bt)
           IN  IF failed # "none"
               THEN /\ status' = "panicked"
                    /\ err' = failed
                    /\ UNCHANGED <<tasks, written>>
               ELSE /\ status' = "running"
                    /\ err' = "none"
                    /\ tasks' = [col_block \in Blocks(p) |-> 0]
                    /\ written' = [col_block \in Blocks(p) |-> NoWrites(c)]
        /\ UNCHANGED <<a_arg, b_arg, a, b, c, avx, oob>>

\* the task of col_block runs its next row
par_task(col_block) ==
    /\ status = "running"
    /\ col_block \in DOMAIN tasks
    /\ tasks[col_block] < m
    /\ \E mem \in {par_task_row(Mem(c, written[col_block], oob), col_block, tasks[col_block])} :
           /\ c' = mem.c
           /\ oob' = mem.oob
           /\ written' = [written EXCEPT ![col_block] = mem.w]
    /\ tasks' = [tasks EXCEPT ![col_block] = @ + 1]
    /\ UNCHANGED <<a_arg, b_arg, a, b, c_in, a_t, b_t, avx, kernel, status, err>>

\* Joined with one finished task for all
Joined_any == \E col_block \in DOMAIN tasks : tasks[col_block] >= m

\* for_each returns when every task has run all its rows
Joined == \A col_block \in DOMAIN tasks : tasks[col_block] >= m

par_join ==
    /\ status = "running"
    /\ Joined
    /\ status' = "done"
    /\ UNCHANGED <<a_arg, b_arg, a, b, c, c_in, a_t, b_t, avx, kernel, err, oob,
                   tasks, written>>

\* the column blocks there can be: cols(B) is at most MaxBlocks \div 2 blocks
TaskIds == {col_block * block_size : col_block \in 0..(MaxBlocks \div 2)}

Next ==
    \/ NewA
    \/ NewB
    \/ sgemm
    \/ sgemm_tiled
    \/ sgemm_tiled_simd
    \/ sgemm_tiled_par
    \/ \E col_block \in TaskIds : par_task(col_block)
    \/ par_join

Spec == Init /\ [][Next]_vars

\* The runs of a caller of sgemm_tiled_par.  rayon's pool runs every task it
\* was given to its end, and for_each returns once they all have ended.
NextPar ==
    \/ NewA
    \/ NewB
    \/ sgemm_tiled_par
    \/ \E col_block \in TaskIds : par_task(col_block)
    \/ par_join

\* par_task(col_block) as it shows on tasks: enabled when par_task(col_block)
\* is, and the only step of NextPar that satisfies it is par_task(col_block).
\* Fairness is stated on it, so that ENABLED does not run the row of the task.
task_advances(col_block) ==
    /\ status = "running"
    /\ col_block \in DOMAIN tasks
    /\ tasks[col_block] < m
    /\ tasks' = [tasks EXCEPT ![col_block] = @ + 1]

InitPar == InitKernels /\ InitCaller

SpecFair ==
    /\ InitPar
    /\ [][NextPar]_vars
    /\ \A col_block \in TaskIds : WF_tasks(task_advances(col_block))
    /\ WF_vars(par_join)

\* --------------------------------------------------------------- the claims

Tiled == {"sgemm_tiled", "sgemm_tiled_par", "sgemm_tiled_simd"}

RECURSIVE Dot(_, _, _, _)
\* the sum over k in k0..k1-1 of A[i,k] * B[k,j]
Dot(i, j, k0, k1) ==
    IF k0 >= k1 THEN 0
    ELSE a.data[i * n + k0] * b.data[k0 * p + j] + Dot(i, j, k0 + 1, k1)

\* C1: sgemm on valid inputs ends with C[i*p+j] equal to its prior value plus
\* the sum over k of A[i,k]*B[k,j], for every i < m and j < p.
C1_NaiveAccumulatesProduct ==
    (kernel = "sgemm" /\ status = "done") =>
        \A i \in 0..(m - 1), j \in 0..(p - 1) :
            c[i * p + j] = c_in[i * p + j] + Dot(i, j, 0, n)

C1_Witness ==
    /\ kernel = "sgemm" /\ status = "done"
    /\ m > 0 /\ p > 0 /\ n >= 32
    /\ c_in[0] # 0
    /\ c # c_in

\* C2: with a shared dimension of one block and a zero-initialized C, each tiled
\* kernel leaves what sgemm leaves on the same input.
C2_TiledMatchesNaive ==
    (/\ kernel \in Tiled /\ status = "done"
     /\ n = 16
     /\ \A i \in DOMAIN c_in : c_in[i] = 0)
        => c = sgemm_run(c_in).c

\* C3: a call with a transpose flag set, with A.cols # B.rows or with an output
\* buffer of the wrong length fails, with the error of the first assertion
\* that does not hold, and leaves C as it was.
C3_FailFast ==
    (/\ kernel # "none"
     /\ \/ a_t \/ b_t
        \/ a.shape[1] # b.shape[0]
        \/ VecLen(c_in) # a.shape[0] * b.shape[1])
        => /\ status = "panicked"
           /\ err = IF a_t \/ b_t THEN "Unsupported"
                    ELSE IF a.shape[1] # b.shape[0] THEN "Incompatibility"
                    ELSE "Size"
           /\ c = c_in
           /\ ~oob

C3_Witness ==
    /\ kernel = "sgemm_tiled_par"
    /\ status = "panicked" /\ err = "Size"
    /\ m > 0 /\ n > 0 /\ p > 0
    /\ VecLen(c) > 0

\* the shape and data of a tensor as the data model states them
ShapeAsClaimed(t) ==
    /\ VecLen(t.shape) = 2
    /\ \A d \in DOMAIN t.shape : t.shape[d] > 0 /\ t.shape[d] % 16 = 0
    /\ VecLen(t.data) = t.shape[0] * t.shape[1]

\* C4: a tensor that F32Tensor::new returned has exactly two dimensions, each
\* positive and divisible by 16, and rows*cols elements of data; on any other
\* (data, shape) it fails and returns no tensor.
C4_TensorShapePositive ==
    /\ a.built => ShapeAsClaimed(a)
    /\ (status = "panicked" /\ err = "Shape" /\ ~a.built) => ~ShapeAsClaimed(a_arg)

\* C5: in sgemm_tiled_par the task of column block cb writes only the indices
\* row*p + cb + el with el in 0..15, and no index is written by two tasks.
C5_DisjointWrites ==
    (kernel = "sgemm_tiled_par" /\ status \in {"running", "done"}) =>
        \A cb \in DOMAIN written : \A i \in DOMAIN c :
            written[cb][i] =>
                /\ (i \div p) \in 0..(m - 1)
                /\ (i % p) - cb \in 0..15
                /\ \A other \in DOMAIN written \ {cb} : ~written[other][i]

C5_Witness ==
    /\ kernel = "sgemm_tiled_par" /\ status = "running"
    /\ \E cb, other \in DOMAIN written :
           /\ cb # other
           /\ \E i \in DOMAIN c : written[cb][i]
           /\ \E i \in DOMAIN c : written[other][i]
           /\ tasks[cb] < m /\ tasks[other] < m

\* what the tiled loops leave in C[i,j] according to the input alone: the last
\* value assigned to it, or its prior value when the shared dimension is 0
FinalCell(i, j) ==
    IF n = 0 THEN c_in[i * p + j]
    ELSE a.data[i * n + (n - 1)] * b.data[(n - 1) * p + j]

\* C6: whatever the interleaving of its tasks, sgemm_tiled_par ends with a C
\* that the input alone determines: the elements of a row that a task has
\* finished hold their final values whatever the other tasks do, and at the
\* end C is what the column blocks taken one after the other leave.
C6_ParDeterministic ==
    (kernel = "sgemm_tiled_par" /\ status \in {"running", "done"}) =>
        /\ \A cb \in DOMAIN tasks :
               \A row \in 0..(tasks[cb] - 1), el \in 0..15 :
                   c[row * p + cb + el] = FinalCell(row, cb + el)
        /\ status = "done" =>
               /\ \A i \in DOMAIN c : c[i] = FinalCell(i \div p, i % p)
               /\ c = sgemm_tiled_run(c_in).c

C6_Witness ==
    /\ kernel = "sgemm_tiled_par" /\ status = "done"
    /\ m > 0 /\ n > 0 /\ p >= 32
    /\ c # c_in

\* C7: sgemm_tiled_par forks one task per column block 0, 16, 32, ..., that is
\* cols(B)/16 tasks; it returns only when each has run all its rows and written
\* all its elements; and under fair scheduling it returns.
C7_ForkJoin ==
    /\ []((kernel = "sgemm_tiled_par" /\ status \in {"running", "done"}) =>
            /\ DOMAIN tasks = {16 * k : k \in 0..((p \div 16) - 1)}
            /\ Cardinality(DOMAIN tasks) = p \div 16)
    /\ []((kernel = "sgemm_tiled_par" /\ status = "done") =>
            \A cb \in DOMAIN tasks :
                /\ tasks[cb] = m
                /\ n > 0 => \A row \in 0..(m - 1), el \in 0..15 :
                                 written[cb][row * p + cb + el])
    /\ (kernel = "sgemm_tiled_par" /\ status = "running") ~> (status = "done")

C7_Witness ==
    /\ kernel = "sgemm_tiled_par" /\ status = "done"
    /\ m > 0 /\ n > 0
    /\ Cardinality(DOMAIN tasks) >= 2

\* C8: with a shared dimension of more than one block, sgemm_tiled leaves in
\* C[i*p+j] the partial product of the last block, the sum over k in n-16..n-1
\* of A[i,k]*B[k,j].
C8_LastBlockSurvives ==
    (kernel = "sgemm_tiled" /\ status = "done" /\ n > 16) =>
        \A i \in 0..(m - 1), j \in 0..(p - 1) :
            c[i * p + j] = Dot(i, j, n - 16, n)

\* C9: on both of its paths sgemm_tiled_simd leaves what sgemm_tiled leaves on
\* the same input.
C9_SimdMatchesTiled ==
    (kernel = "sgemm_tiled_simd" /\ status = "done") => c = sgemm_tiled_run(c_in).c

\* C10: once the assertions of a tiled kernel have passed, no index it uses is
\* outside its buffer: the reads of A and B, the writes to C, and the 8-wide
\* loads and stores of the vector path.
C10_IndicesInBounds ==
    (kernel \in Tiled /\ status \in {"running", "done"}) => ~oob

C10_Witness ==
    /\ kernel = "sgemm_tiled_simd" /\ avx /\ status = "done"
    /\ m > 0 /\ n >= 32 /\ p > 0
    /\ c # c_in

====
